---- MODULE Spec2Model ----
(***************************************************************************)
(* A model of pearson3curve's Data class (src/src/pearson3curve/data.py):  *)
(* the descending-sorted record set, its extreme/ordinary partition, the   *)
(* survey period length and the empirical-probability override; and of the *)
(* moment estimator and the curve fitter that read it                      *)
(* (src/src/pearson3curve/fitting.py).                                     *)
(*                                                                         *)
(* Probabilities are exact rationals <<numerator, denominator>> in lowest  *)
(* terms with a positive denominator.  An optional value (Python's None or *)
(* a value) is the empty sequence or a one-element sequence.  The records  *)
(* are Python integers: a non-empty list of them makes an int64 array and  *)
(* an empty list a float64 array, and dtype is the element type of data.   *)
(***************************************************************************)
EXTENDS Integers, Sequences, FiniteSets

VARIABLES self, historical, call, nbyorder, last_moments, last_fit

vars == <<self, historical, call, nbyorder, last_moments, last_fit>>

(***************************************************************************)
(* Bounds of the model.                                                    *)
(***************************************************************************)
MaxObs == 2
MaxHist == 2
MaxByOrderCalls == 2

MaxLen == MaxObs + MaxHist
MaxPeriod == MaxLen
MaxExtreme == MaxLen

ObsVals == {1, 3}
HistVals == {2}

(***************************************************************************)
(* Optional values.                                                        *)
(***************************************************************************)
None == <<>>
Some(x) == <<x>>
IsNone(o) == o = <<>>
Val(o) == o[1]

(***************************************************************************)
(* Rational arithmetic (numpy's float division, kept exact).               *)
(***************************************************************************)
Abs(n) == IF n < 0 THEN -n ELSE n

RECURSIVE GCD(_, _)
GCD(a, b) == IF b = 0 THEN a ELSE GCD(b, a % b)

Rat(n, d) ==
    LET g == GCD(Abs(n), Abs(d))
        s == IF d < 0 THEN -1 ELSE 1
    IN  <<(s * n) \div g, (s * d) \div g>>

RAdd(a, b) == Rat(a[1] * b[2] + b[1] * a[2], a[2] * b[2])
RSub(a, b) == Rat(a[1] * b[2] - b[1] * a[2], a[2] * b[2])
RMul(a, b) == Rat(a[1] * b[1], a[2] * b[2])
RLt(a, b) == a[1] * b[2] < b[1] * a[2]
RLe(a, b) == a[1] * b[2] <= b[1] * a[2]
RZero == Rat(0, 1)
ROne == Rat(1, 1)
RDiv(a, b) == Rat(a[1] * b[2], a[2] * b[1])

RECURSIVE RPow(_, _)
RPow(a, k) == IF k = 0 THEN ROne ELSE RMul(a, RPow(a, k - 1))

\* sum(...) of a sequence of rationals.
RECURSIVE SumOf(_)
SumOf(s) == IF s = <<>> THEN RZero ELSE RAdd(Head(s), SumOf(Tail(s)))

\* The records of an array as rationals.
Floats(s) == [i \in 1..Len(s) |-> Rat(s[i], 1)]

\* sum((x - mean) ** k for x in a)
SumDev(a, mean, k) ==
    SumOf([i \in 1..Len(a) |-> RPow(RSub(Rat(a[i], 1), mean), k)])

(***************************************************************************)
(* Sequences: len, slices, concatenation, sort.                            *)
(***************************************************************************)
Min(a, b) == IF a < b THEN a ELSE b
Max(a, b) == IF a > b THEN a ELSE b

\* A slice bound as Python reads it: a negative bound counts from the end,
\* and a bound past either end stops at that end.
Clamp(s, i) == IF i < 0 THEN Max(Len(s) + i, 0) ELSE Min(i, Len(s))
SliceTo(s, n) == SubSeq(s, 1, Clamp(s, n))
SliceFrom(s, n) == SubSeq(s, Clamp(s, n) + 1, Len(s))

Reverse(s) == [i \in 1..Len(s) |-> s[Len(s) + 1 - i]]

RECURSIVE InsertAsc(_, _)
InsertAsc(s, x) ==
    IF s = <<>> THEN <<x>>
    ELSE IF x <= Head(s) THEN <<x>> \o s
    ELSE <<Head(s)>> \o InsertAsc(Tail(s), x)

RECURSIVE SortAsc(_)
SortAsc(s) == IF s = <<>> THEN <<>> ELSE InsertAsc(SortAsc(Tail(s)), Head(s))

\* The sort without the reversal.
SortDesc_ascending(s) == SortAsc(s)

\* np.sort(a)[::-1]
SortDesc(s) == Reverse(SortAsc(s))

SeqsUpTo(S, n) == UNION {[1..k -> S] : k \in 0..n}

(***************************************************************************)
(* Element types: np.array of a list of the model's records, and the type  *)
(* np.concatenate gives the records of two arrays.                         *)
(***************************************************************************)
np_array_dtype(list) == IF list = <<>> THEN "float64" ELSE "int64"

result_type(t1, t2) ==
    IF t1 = "float64" \/ t2 = "float64" THEN "float64" ELSE "int64"

(***************************************************************************)
(* Data.__init__                                                           *)
(***************************************************************************)
New(observed_data) ==
    LET d == SortDesc(observed_data)
    IN  [observed_data  |-> observed_data,
         data           |-> d,
         dtype          |-> np_array_dtype(observed_data),
         extreme_data   |-> <<>>,
         ordinary_data  |-> d,
         period_length  |-> Len(observed_data),
         empirical_prob |-> None]

(***************************************************************************)
(* Variants of set_history_data with one slip each: the period check       *)
(* rejecting a period equal to the number of records; the new batch merged *)
(* into the previous sorted data; the override cleared by a call that      *)
(* returns.                                                                *)
(***************************************************************************)
set_history_data_strict_period(obj, history_data, period_length, extreme_num) ==
    IF period_length <= Len(obj.observed_data) + Len(history_data)
    THEN [obj |-> obj, raised |-> "ValueError"]
    ELSE
      LET s1 == [obj EXCEPT !.period_length = period_length]
          en == IF IsNone(extreme_num) THEN Len(history_data) ELSE Val(extreme_num)
      IN  IF en < Len(history_data)
          THEN [obj |-> s1, raised |-> "ValueError"]
          ELSE
            LET d == SortDesc(obj.observed_data \o history_data)
            IN  [obj |-> [s1 EXCEPT !.data = d,
                                    !.dtype = result_type(
                                        np_array_dtype(obj.observed_data),
                                        np_array_dtype(history_data)),
                                    !.extreme_data = SliceTo(d, en),
                                    !.ordinary_data = SliceFrom(d, en)],
                 raised |-> "None"]

set_history_data_accumulate(obj, history_data, period_length, extreme_num) ==
    IF period_length < Len(obj.observed_data) + Len(history_data)
    THEN [obj |-> obj, raised |-> "ValueError"]
    ELSE
      LET s1 == [obj EXCEPT !.period_length = period_length]
          en == IF IsNone(extreme_num) THEN Len(history_data) ELSE Val(extreme_num)
      IN  IF en < Len(history_data)
          THEN [obj |-> s1, raised |-> "ValueError"]
          ELSE
            LET d == SortDesc(obj.data \o history_data)
            IN  [obj |-> [s1 EXCEPT !.data = d,
                                    !.dtype = result_type(
                                        np_array_dtype(obj.observed_data),
                                        np_array_dtype(history_data)),
                                    !.extreme_data = SliceTo(d, en),
                                    !.ordinary_data = SliceFrom(d, en)],
                 raised |-> "None"]

\* set_history_data forgetting the override when it rebuilds the data.
set_history_data_clears_override(obj, history_data, period_length, extreme_num) ==
    IF period_length < Len(obj.observed_data) + Len(history_data)
    THEN [obj |-> obj, raised |-> "ValueError"]
    ELSE
      LET s1 == [obj EXCEPT !.period_length = period_length]
          en == IF IsNone(extreme_num) THEN Len(history_data) ELSE Val(extreme_num)
      IN  IF en < Len(history_data)
          THEN [obj |-> s1, raised |-> "ValueError"]
          ELSE
            LET d == SortDesc(obj.observed_data \o history_data)
            IN  [obj |-> [s1 EXCEPT !.data = d,
                                    !.dtype = result_type(
                                        np_array_dtype(obj.observed_data),
                                        np_array_dtype(history_data)),
                                    !.extreme_data = SliceTo(d, en),
                                    !.ordinary_data = SliceFrom(d, en),
                                    !.empirical_prob = None],
                 raised |-> "None"]

(***************************************************************************)
(* Data.set_history_data: the object after the call and the exception      *)
(* raised ("None" when the call returns).                                  *)
(***************************************************************************)
set_history_data(obj, history_data, period_length, extreme_num) ==
    IF period_length < Len(obj.observed_data) + Len(history_data)
    THEN [obj |-> obj, raised |-> "ValueError"]
    ELSE
      LET s1 == [obj EXCEPT !.period_length = period_length]
          en == IF IsNone(extreme_num) THEN Len(history_data) ELSE Val(extreme_num)
      IN  IF en < Len(history_data)
          THEN [obj |-> s1, raised |-> "ValueError"]
          ELSE
            LET d == SortDesc(obj.observed_data \o history_data)
            IN  [obj |-> [s1 EXCEPT !.data = d,
                                    !.dtype = result_type(
                                        np_array_dtype(obj.observed_data),
                                        np_array_dtype(history_data)),
                                    !.extreme_data = SliceTo(d, en),
                                    !.ordinary_data = SliceFrom(d, en)],
                 raised |-> "None"]

(***************************************************************************)
(* Data.extreme_prob, Data.ordinary_prob, Data.empirical_prob              *)
(***************************************************************************)
\* The extreme probabilities ranked against the number of extreme records
\* and not against the survey period.
extreme_prob_ranked_in_partition(obj) ==
    IF ~IsNone(obj.empirical_prob)
    THEN SliceTo(Val(obj.empirical_prob), Len(obj.extreme_data))
    ELSE LET l == Len(obj.extreme_data)
         IN  IF l = 0 THEN <<>>
             ELSE [i \in 1..l |-> Rat(i, l + 1)]

extreme_prob(obj) ==
    IF ~IsNone(obj.empirical_prob)
    THEN SliceTo(Val(obj.empirical_prob), Len(obj.extreme_data))
    ELSE LET l == Len(obj.extreme_data)
         IN  IF l = 0 THEN <<>>
             ELSE [i \in 1..l |-> Rat(i, obj.period_length + 1)]

\* ordinary_prob deriving the whole-sequence probabilities of an empty
\* extreme partition before it looks at the override.
ordinary_prob_derives_first(obj) ==
    IF Len(obj.extreme_data) = 0
    THEN [i \in 1..obj.period_length |-> Rat(i, obj.period_length + 1)]
    ELSE IF ~IsNone(obj.empirical_prob)
    THEN SliceFrom(Val(obj.empirical_prob), Len(obj.extreme_data))
    ELSE LET ep == extreme_prob(obj)
             mp == ep[Len(ep)]
             l == Len(obj.ordinary_data)
         IN  [j \in 1..l |->
                 RAdd(mp, RMul(RMul(RSub(ROne, mp), Rat(j, 1)), Rat(1, l + 1)))]

ordinary_prob(obj) ==
    IF ~IsNone(obj.empirical_prob)
    THEN SliceFrom(Val(obj.empirical_prob), Len(obj.extreme_data))
    ELSE IF Len(obj.extreme_data) = 0
    THEN [i \in 1..obj.period_length |-> Rat(i, obj.period_length + 1)]
    ELSE LET ep == extreme_prob(obj)
             mp == ep[Len(ep)]
             l == Len(obj.ordinary_data)
         IN  [j \in 1..l |->
                 RAdd(mp, RMul(RMul(RSub(ROne, mp), Rat(j, 1)), Rat(1, l + 1)))]

empirical_prob(obj) ==
    IF ~IsNone(obj.empirical_prob)
    THEN Val(obj.empirical_prob)
    ELSE extreme_prob(obj) \o ordinary_prob(obj)

(***************************************************************************)
(* Data.set_empirical_prob                                                 *)
(***************************************************************************)
\* The range check with the bounds 0 and 1 excluded.
set_empirical_prob_open_range(obj, values) ==
    IF Len(values) # Len(obj.data)
    THEN [obj |-> obj, raised |-> "ValueError"]
    ELSE IF \E i \in 1..Len(values) : RLe(values[i], RZero) \/ RLe(ROne, values[i])
    THEN [obj |-> obj, raised |-> "ValueError"]
    ELSE [obj |-> [obj EXCEPT !.empirical_prob = Some(values)], raised |-> "None"]

set_empirical_prob(obj, values) ==
    IF Len(values) # Len(obj.data)
    THEN [obj |-> obj, raised |-> "ValueError"]
    ELSE IF \E i \in 1..Len(values) : RLt(values[i], RZero) \/ RLt(ROne, values[i])
    THEN [obj |-> obj, raised |-> "ValueError"]
    ELSE [obj |-> [obj EXCEPT !.empirical_prob = Some(values)], raised |-> "None"]

(***************************************************************************)
(* Data.set_empirical_prob_by_order                                        *)
(***************************************************************************)
\* The range check letting through the order one past the last record.
set_empirical_prob_by_order_one_past(obj, order, prob, start_value) ==
    IF order < start_value \/ order > Len(obj.data) + start_value
    THEN [obj |-> obj, raised |-> "IndexError"]
    ELSE IF RLt(prob, RZero) \/ RLt(ROne, prob)
    THEN [obj |-> obj, raised |-> "ValueError"]
    ELSE
      LET ep == empirical_prob(obj)
          np_where == [i \in 1..Len(ep) |->
                          IF i - 1 = order - start_value THEN prob ELSE ep[i]]
      IN  [obj |-> [obj EXCEPT !.empirical_prob = Some(np_where)], raised |-> "None"]

set_empirical_prob_by_order(obj, order, prob, start_value) ==
    IF order < start_value \/ order > Len(obj.data) - 1 + start_value
    THEN [obj |-> obj, raised |-> "IndexError"]
    ELSE IF RLt(prob, RZero) \/ RLt(ROne, prob)
    THEN [obj |-> obj, raised |-> "ValueError"]
    ELSE
      LET ep == empirical_prob(obj)
          np_where == [i \in 1..Len(ep) |->
                          IF i - 1 = order - start_value THEN prob ELSE ep[i]]
      IN  [obj |-> [obj EXCEPT !.empirical_prob = Some(np_where)], raised |-> "None"]

(***************************************************************************)
(* fitting.get_moments.  The result is the exception raised ("None" when   *)
(* it returns) and the three moments in exact arithmetic.  mean is the     *)
(* mean.  The coefficient of variation is a square root over the mean and  *)
(* is kept as the argument of the square root:                             *)
(*     variance = sqrt(radicand) / mean.                                   *)
(* The skewness has mean**3 * variance**3 in its denominator and is kept   *)
(* as what that product divides:                                           *)
(*     skewness = moment3 / (mean**3 * variance**3).                       *)
(* A moment that comes out as inf or nan (a numpy division by zero) is     *)
(* None.  With extreme data the mean in these two formulas is the returned *)
(* mean.  With none, scipy takes its own mean of the records, which is not *)
(* the returned one when statistics.mean rounds it to the records' type:   *)
(* variation_mean is the mean the variation divides by,                    *)
(*     variance = sqrt(radicand) / variation_mean,                         *)
(*     skewness = moment3 / (variation_mean**3 * variance**3).             *)
(***************************************************************************)
Moments(raised, mean, variation_mean, radicand, moment3) ==
    [raised |-> raised, mean |-> mean, variation_mean |-> variation_mean,
     radicand |-> radicand, moment3 |-> moment3]

\* int(x) of a rational: the integer part, rounded towards zero.
Trunc(x) == IF x[1] >= 0 THEN x[1] \div x[2] ELSE -((-x[1]) \div x[2])

\* statistics.mean(a), stats.variation(a, ddof=1), stats.skew(a, bias=False)
\* for the records a, of element type dtype, of a sequence with no extreme
\* data: the sample mean, the sample standard deviation (n - 1 in the
\* denominator) over the mean, and the sample skewness with its
\* n / ((n - 1)(n - 2)) correction when n > 2.  statistics.mean converts
\* the exact mean to the type of the records: numpy.int64 is not a subclass
\* of int, so the mean of int64 records is numpy.int64(Fraction), its
\* integer part.  scipy computes its own mean of the records in floats.
plain_moments(a, dtype) ==
    LET n == Len(a)
    IN  IF n = 0 THEN Moments("StatisticsError", None, None, None, None)
        ELSE
          LET exact == RDiv(SumOf(Floats(a)), Rat(n, 1))
              mean == IF dtype = "int64" THEN Rat(Trunc(exact), 1) ELSE exact
              s2 == SumDev(a, exact, 2)
              s3 == SumDev(a, exact, 3)
          IN  IF n = 1 THEN Moments("None", Some(mean), Some(exact), None, None)
              ELSE
                LET radicand == RDiv(s2, Rat(n - 1, 1))
                IN  Moments("None", Some(mean), Some(exact),
                            IF exact = RZero THEN None ELSE Some(radicand),
                            IF s2 = RZero THEN None
                            ELSE IF n = 2 THEN Some(RZero)
                            ELSE Some(RDiv(RMul(Rat(n, 1), s3),
                                           Rat((n - 1) * (n - 2), 1))))

\* r is a division of Python integers and raises on an empty ordinary
\* partition; the divisions after it are numpy's and give inf or nan;
\* math.sqrt raises on a negative argument.
get_moments(sequence) ==
    LET ext == sequence.extreme_data
        ord == sequence.ordinary_data
        P == sequence.period_length
    IN  IF Len(ext) = 0 THEN plain_moments(sequence.data, sequence.dtype)
        ELSE IF Len(ord) = 0
        THEN Moments("ZeroDivisionError", None, None, None, None)
        ELSE IF P = 0 THEN Moments("None", None, None, None, None)
        ELSE
          LET r == Rat(P - Len(ext), Len(ord))
              mean == RDiv(RAdd(SumOf(Floats(ext)), RMul(r, SumOf(Floats(ord)))),
                           Rat(P, 1))
              s2 == RAdd(SumDev(ext, mean, 2), RMul(r, SumDev(ord, mean, 2)))
              s3 == RAdd(SumDev(ext, mean, 3), RMul(r, SumDev(ord, mean, 3)))
          IN  IF P = 1
              THEN IF RLt(s2, RZero)
                   THEN Moments("ValueError", None, None, None, None)
                   ELSE Moments("None", Some(mean), Some(mean), None, None)
              ELSE
                LET radicand == RDiv(s2, Rat(P - 1, 1))
                IN  IF RLt(radicand, RZero)
                    THEN Moments("ValueError", None, None, None, None)
                    ELSE IF mean = RZero
                    THEN Moments("None", Some(mean), Some(mean), None, None)
                    ELSE IF P = 2 \/ radicand = RZero
                    THEN Moments("None", Some(mean), Some(mean), Some(radicand), None)
                    ELSE Moments("None", Some(mean), Some(mean), Some(radicand),
                                 Some(RDiv(RMul(Rat(P, 1), s3),
                                           Rat((P - 1) * (P - 2), 1))))

(***************************************************************************)
(* fitting.get_fitted_moments.  A float of the fitter is None (nan or inf) *)
(* or a rational.  The initial moments are the caller's or get_moments's;  *)
(* m_cv and m_cs of get_moments are carried as get_moments returns them    *)
(* here, the fitter only copies them into p0.  curve_fit is what the       *)
(* least-squares solver does with p0: the exception it raises or the popt  *)
(* it returns, one value per entry of p0.  The result is the exception     *)
(* raised, the initial moments m, the p0 handed to the solver and the      *)
(* returned (ex, cv, cs).                                                  *)
(***************************************************************************)
FMul(a, b) == IF IsNone(a) \/ IsNone(b) THEN None ELSE Some(RMul(Val(a), Val(b)))

Fitted(raised, m, p0, ret) == [raised |-> raised, m |-> m, p0 |-> p0, ret |-> ret]

\* The number of parameters the solver is given.
free_parameters(sv_ratio, fit_ex) ==
    (IF fit_ex THEN 1 ELSE 0) + 1 + (IF IsNone(sv_ratio) THEN 1 ELSE 0)

\* The skewness taken from the initial variation instead of the fitted one.
fit_from_ratio_of_initial(m, sv_ratio, fit_ex, p0, curve_fit) ==
    IF curve_fit.raised # "None"
    THEN Fitted(curve_fit.raised, Some(m), p0, None)
    ELSE IF IsNone(sv_ratio)
    THEN IF fit_ex
         THEN Fitted("None", Some(m), p0,
                     Some(<<curve_fit.popt[1], curve_fit.popt[2], curve_fit.popt[3]>>))
         ELSE Fitted("None", Some(m), p0,
                     Some(<<m[1], curve_fit.popt[1], curve_fit.popt[2]>>))
    ELSE IF fit_ex
         THEN Fitted("None", Some(m), p0,
                     Some(<<curve_fit.popt[1], curve_fit.popt[2],
                            FMul(m[2], sv_ratio)>>))
         ELSE Fitted("None", Some(m), p0,
                     Some(<<m[1], curve_fit.popt[1],
                            FMul(m[2], sv_ratio)>>))

\* The four branches on sv_ratio and fit_ex, from the initial moments
\* m = (m_ex, m_cv, m_cs) and the p0 of the branch: popt is unpacked into
\* the free parameters and the others are set from m and sv_ratio.
fit_from(m, sv_ratio, fit_ex, p0, curve_fit) ==
    IF curve_fit.raised # "None"
    THEN Fitted(curve_fit.raised, Some(m), p0, None)
    ELSE IF IsNone(sv_ratio)
    THEN IF fit_ex
         THEN Fitted("None", Some(m), p0,
                     Some(<<curve_fit.popt[1], curve_fit.popt[2], curve_fit.popt[3]>>))
         ELSE Fitted("None", Some(m), p0,
                     Some(<<m[1], curve_fit.popt[1], curve_fit.popt[2]>>))
    ELSE IF fit_ex
         THEN Fitted("None", Some(m), p0,
                     Some(<<curve_fit.popt[1], curve_fit.popt[2],
                            FMul(curve_fit.popt[2], sv_ratio)>>))
         ELSE Fitted("None", Some(m), p0,
                     Some(<<m[1], curve_fit.popt[1],
                            FMul(curve_fit.popt[1], sv_ratio)>>))

\* p0 of the four curve_fit calls.
initial_guess(m, sv_ratio, fit_ex) ==
    IF IsNone(sv_ratio)
    THEN IF fit_ex THEN <<m[1], m[2], m[3]>> ELSE <<m[2], m[3]>>
    ELSE IF fit_ex THEN <<m[1], m[2]>> ELSE <<m[2]>>

fit_with(m, sv_ratio, fit_ex, curve_fit) ==
    fit_from(m, sv_ratio, fit_ex, initial_guess(m, sv_ratio, fit_ex), curve_fit)

\* m_ex, m_cv, m_cs = get_moments(sequence), which may raise.
fit_estimated(g, sv_ratio, fit_ex, curve_fit) ==
    IF g.raised # "None"
    THEN Fitted(g.raised, None, <<>>, None)
    ELSE fit_with(<<g.mean, g.radicand, g.moment3>>, sv_ratio, fit_ex, curve_fit)

get_fitted_moments(sequence, sv_ratio, fit_ex, moments, curve_fit) ==
    IF IsNone(moments)
    THEN fit_estimated(get_moments(sequence), sv_ratio, fit_ex, curve_fit)
    ELSE fit_with(Val(moments), sv_ratio, fit_ex, curve_fit)

(***************************************************************************)
(* The inputs the calls draw from.                                         *)
(***************************************************************************)
Observed == SeqsUpTo(ObsVals, MaxObs)
Histories == SeqsUpTo(HistVals, MaxHist)
Periods == 0..MaxPeriod
ExtremeNums == {None} \cup {Some(n) : n \in 0..MaxExtreme}
Probs == {Rat(0, 1), Rat(3, 2)}
ProbArrays == SeqsUpTo({Rat(-1, 2), Rat(1, 1)}, MaxLen)
Orders == 0..(MaxLen + 1)
StartValues == {0, 1}
LongObserved == SeqsUpTo(ObsVals, MaxObs + 1)
SvRatios == {None, Some(Rat(7, 2))}
MomentsArgs == {None, Some(<<Some(Rat(5, 1)), Some(Rat(1, 2)), Some(Rat(3, 2))>>)}
Popts == {<<Some(Rat(1, 2)), Some(Rat(2, 1)), Some(Rat(3, 1))>>,
          <<Some(Rat(2, 1)), Some(Rat(1, 2)), Some(Rat(1, 2))>>}
SolverOutcomes(k) ==
    {[raised |-> "RuntimeError", popt |-> <<>>]}
        \cup {[raised |-> "None", popt |-> SubSeq(q, 1, k)] : q \in Popts}

\* Arguments the claims try a call with in every reachable state: wider than
\* the calls the state machine makes, and on both sides of every boundary.
TryPeriods == -1..(MaxLen + 2)
TryExtremeNums == {None} \cup {Some(n) : n \in -1..(MaxLen + 2)}
TryProbs == {Rat(-1, 2), Rat(0, 1), Rat(1, 2), Rat(1, 1), Rat(3, 2)}
TryOrders == -2..(MaxLen + 3)
TryStartValues == -1..2

Called(op, raised) == [op |-> op, raised |-> raised]

(***************************************************************************)
(* The state machine: one object, the calls made on it.                    *)
(* historical is the batch of the most recent call of set_history_data     *)
(* that returned; call is the most recent call and the exception it raised *)
(* ("None" when it returned); nbyorder counts the calls of                 *)
(* set_empirical_prob_by_order.  The arguments of a call are not kept: a   *)
(* property about a call applies the method's operator to the state with   *)
(* every argument.                                                         *)
(***************************************************************************)
Init ==
    /\ \E o \in Observed : self = New(o)
    /\ historical = <<>>
    /\ call = Called("__init__", "None")
    /\ nbyorder = 0
    /\ last_moments = None
    /\ last_fit = None

SetHistoryData ==
    \E h \in Histories, p \in Periods, e \in ExtremeNums :
        LET r == set_history_data(self, h, p, e)
        IN  /\ self' = r.obj
            /\ historical' = IF r.raised = "None" THEN h ELSE historical
            /\ call' = Called("set_history_data", r.raised)
            /\ UNCHANGED <<nbyorder, last_moments, last_fit>>

SetEmpiricalProb ==
    \E v \in ProbArrays :
        LET r == set_empirical_prob(self, v)
        IN  /\ self' = r.obj
            /\ call' = Called("set_empirical_prob", r.raised)
            /\ UNCHANGED <<historical, nbyorder, last_moments, last_fit>>

SetEmpiricalProbByOrder ==
    /\ nbyorder < MaxByOrderCalls
    /\ \E o \in Orders, p \in Probs, s \in StartValues :
        LET r == set_empirical_prob_by_order(self, o, p, s)
        IN  /\ self' = r.obj
            /\ call' = Called("set_empirical_prob_by_order", r.raised)
            /\ nbyorder' = nbyorder + 1
            /\ UNCHANGED <<historical, last_moments, last_fit>>

Next == SetHistoryData \/ SetEmpiricalProb \/ SetEmpiricalProbByOrder

Spec == Init /\ [][Next]_vars

\* Only set_history_data is called.
NextAttach == SetHistoryData

SpecAttach == Init /\ [][NextAttach]_vars

\* set_history_data and set_empirical_prob are called.
NextSetProb == SetHistoryData \/ SetEmpiricalProb

SpecSetProb == Init /\ [][NextSetProb]_vars

\* get_moments, on sequences of up to MaxObs + 1 observed records:
\* last_moments is the result of the most recent call.
InitMoments ==
    /\ \E o \in LongObserved : self = New(o)
    /\ historical = <<>>
    /\ call = Called("__init__", "None")
    /\ nbyorder = 0
    /\ last_moments = None
    /\ last_fit = None

GetMoments ==
    LET r == get_moments(self)
    IN  /\ last_moments' = Some(r)
        /\ call' = Called("get_moments", r.raised)
        /\ UNCHANGED <<self, historical, nbyorder, last_fit>>

NextMoments == SetHistoryData \/ GetMoments

SpecMoments == InitMoments /\ [][NextMoments]_vars

\* get_fitted_moments: last_fit is the arguments and the result of the most
\* recent call.  The fitter does not change the sequence; a run attaches
\* its historical data and then fits.
GetFittedMoments ==
    \E sv \in SvRatios, fe \in BOOLEAN, m \in MomentsArgs :
        \E c \in SolverOutcomes(free_parameters(sv, fe)) :
            LET r == get_fitted_moments(self, sv, fe, m, c)
            IN  /\ last_fit' = Some([sv_ratio |-> sv, fit_ex |-> fe, moments |-> m,
                                     curve_fit |-> c, result |-> r])
                /\ call' = Called("get_fitted_moments", r.raised)
                /\ UNCHANGED <<self, historical, nbyorder, last_moments>>

SetHistoryDataBeforeFit == IsNone(last_fit) /\ SetHistoryData

NextFit == SetHistoryDataBeforeFit \/ GetFittedMoments

SpecFit == Init /\ [][NextFit]_vars

(***************************************************************************)
(* Vocabulary of the properties.                                           *)
(***************************************************************************)
IsSortedDesc(s) == \A i \in 1..(Len(s) - 1) : s[i] >= s[i + 1]
Count(s, x) == Cardinality({i \in DOMAIN s : s[i] = x})
Elems(s) == {s[i] : i \in DOMAIN s}
IsPermutation(s, t) ==
    /\ Len(s) = Len(t)
    /\ \A x \in Elems(s) \cup Elems(t) : Count(s, x) = Count(t, x)

Overridden == ~IsNone(self.empirical_prob)
Returned(op) == call.op = op /\ call.raised = "None"

\* The extreme count a call of set_history_data asks for.
Asked(h, e) == IF IsNone(e) THEN Len(h) ELSE Val(e)

(***************************************************************************)
(* C1: in every state reachable by any sequence of set_history_data,       *)
(* set_empirical_prob and set_empirical_prob_by_order calls, extreme_data  *)
(* followed by ordinary_data is data, data is sorted descending and is a   *)
(* permutation of the observed data followed by the batch of the most      *)
(* recent set_history_data that returned; right after construction the     *)
(* extreme partition is empty, ordinary_data is data and period_length is  *)
(* the number of observed records.                                         *)
(***************************************************************************)
C1_PartitionOfSortedPermutation ==
    /\ self.extreme_data \o self.ordinary_data = self.data
    /\ IsSortedDesc(self.data)
    /\ IsPermutation(self.data, self.observed_data \o historical)
    /\ call.op = "__init__" =>
          /\ self.extreme_data = <<>>
          /\ self.ordinary_data = self.data
          /\ self.period_length = Len(self.observed_data)

\* An unsorted observed sequence, a historical batch attached, both
\* partitions non-empty, and a probability call made since.
C1_Witness ==
    /\ self.observed_data = <<1, 3>>
    /\ historical = <<2>>
    /\ self.extreme_data # <<>>
    /\ self.ordinary_data # <<>>
    /\ call.op = "set_empirical_prob_by_order"

(***************************************************************************)
(* C2: in every state reachable by set_history_data calls, failing ones    *)
(* included, period_length >= len(data).                                   *)
(***************************************************************************)
C2_PeriodCoversData == self.period_length >= Len(self.data)

(***************************************************************************)
(* C3: set_history_data(history_data, period_length, extreme_num) returns  *)
(* if and only if period_length >= len(observed) + len(history_data) and   *)
(* extreme_num is None or >= len(history_data); otherwise it raises        *)
(* ValueError.  Tried with every argument in every reachable state.        *)
(***************************************************************************)
C3_AttachReturnsIff ==
    \A h \in Histories, p \in TryPeriods, e \in TryExtremeNums :
        LET r == set_history_data(self, h, p, e)
            ok == /\ p >= Len(self.observed_data) + Len(h)
                  /\ (IsNone(e) \/ Val(e) >= Len(h))
        IN  /\ r.raised = "None" <=> ok
            /\ r.raised = "ValueError" <=> ~ok

\* A call that returned with period_length exactly the number of records.
C3_Witness ==
    /\ Returned("set_history_data")
    /\ historical # <<>>
    /\ self.period_length = Len(self.observed_data) + Len(historical)

(***************************************************************************)
(* C4: after every set_history_data that returns, extreme_data is the      *)
(* prefix of data of length exactly extreme_num (len(history_data) when    *)
(* None), ordinary_data is the rest, period_length is the argument.        *)
(***************************************************************************)
C4_ExtremeLengthIsExactlyAsked ==
    \A h \in Histories, p \in TryPeriods, e \in TryExtremeNums :
        LET r == set_history_data(self, h, p, e)
        IN  r.raised = "None" =>
              /\ Len(r.obj.extreme_data) = Asked(h, e)
              /\ r.obj.extreme_data \o r.obj.ordinary_data = r.obj.data
              /\ r.obj.period_length = p

(***************************************************************************)
(* C5: set_history_data replaces, it does not accumulate: in every         *)
(* reachable state a call that returns leaves data, extreme_data,          *)
(* ordinary_data and period_length as the same call leaves them on a       *)
(* fresh object built from the same observed data, and repeating the call  *)
(* changes nothing.                                                        *)
(***************************************************************************)
C5_AttachReplaces ==
    \A h \in Histories, p \in Periods, e \in ExtremeNums :
        LET r == set_history_data(self, h, p, e)
            f == set_history_data(New(self.observed_data), h, p, e)
            again == set_history_data(r.obj, h, p, e)
        IN  r.raised = "None" =>
              /\ f.raised = "None"
              /\ r.obj.data = f.obj.data
              /\ r.obj.extreme_data = f.obj.extreme_data
              /\ r.obj.ordinary_data = f.obj.ordinary_data
              /\ r.obj.period_length = f.obj.period_length
              /\ again.raised = "None"
              /\ again.obj = r.obj

\* A state with a two-record batch attached, where the next call replaces it.
C5_Witness ==
    /\ Returned("set_history_data")
    /\ Len(historical) = 2
    /\ Len(self.data) = Len(self.observed_data) + 2
    /\ self.observed_data # <<>>

(***************************************************************************)
(* Rationals in the properties: a fraction n/d with d > 0, not reduced,    *)
(* compared by cross-multiplication.                                       *)
(***************************************************************************)
SameNumber(a, b) == a[1] * b[2] = b[1] * a[2]
InUnitInterval(a) == a[1] >= 0 /\ a[1] <= a[2]
StrictlyInside(a) == a[1] > 0 /\ a[1] < a[2]

(***************************************************************************)
(* C6: with no override and an empty extreme partition, the derived        *)
(* probability arrays hold exactly one entry per record of data, the entry *)
(* at 0-based rank i being (i+1)/(period_length+1).                        *)
(***************************************************************************)
C6_OneProbabilityPerRecord ==
    (~Overridden /\ self.extreme_data = <<>>) =>
        /\ Len(ordinary_prob(self)) = Len(self.data)
        /\ Len(empirical_prob(self)) = Len(self.data)
        /\ \A i \in 1..Len(self.data) :
              /\ SameNumber(ordinary_prob(self)[i], <<i, self.period_length + 1>>)
              /\ SameNumber(empirical_prob(self)[i], <<i, self.period_length + 1>>)

(***************************************************************************)
(* C7: with no override and a non-empty extreme partition, the extreme     *)
(* probability at 0-based rank i is (i+1)/(period_length+1), the ordinary  *)
(* probability at 0-based rank j is                                        *)
(*   ep_last + (1 - ep_last)*(j+1)/(len(ordinary)+1)                       *)
(* with ep_last = len(extreme)/(period_length+1), and the full array is    *)
(* the extreme probabilities followed by the ordinary ones.  Over the      *)
(* common denominator (period_length+1)*(len(ordinary)+1) the ordinary     *)
(* probability is                                                          *)
(*   len(extreme)*(len(ordinary)+1) + (period_length+1-len(extreme))*(j+1).*)
(***************************************************************************)
C7_ExtremeThenRescaledOrdinary ==
    (~Overridden /\ self.extreme_data # <<>>) =>
        LET le == Len(self.extreme_data)
            lo == Len(self.ordinary_data)
            n == self.period_length + 1
            ext(i) == <<i, n>>
            ord(j) == <<le * (lo + 1) + (n - le) * j, n * (lo + 1)>>
        IN  /\ Len(extreme_prob(self)) = le
            /\ Len(ordinary_prob(self)) = lo
            /\ Len(empirical_prob(self)) = le + lo
            /\ \A i \in 1..le :
                  /\ SameNumber(extreme_prob(self)[i], ext(i))
                  /\ SameNumber(empirical_prob(self)[i], ext(i))
            /\ \A j \in 1..lo :
                  /\ SameNumber(ordinary_prob(self)[j], ord(j))
                  /\ SameNumber(empirical_prob(self)[le + j], ord(j))

\* Two extreme records, an ordinary one, and a survey period longer than
\* the number of records.
C7_Witness ==
    /\ ~Overridden
    /\ Returned("set_history_data")
    /\ Len(self.extreme_data) >= 2
    /\ self.ordinary_data # <<>>
    /\ self.period_length > Len(self.data)

(***************************************************************************)
(* C8: in every reachable state with no override, the derived empirical    *)
(* probability array is non-decreasing and every entry lies strictly       *)
(* between 0 and 1.                                                        *)
(***************************************************************************)
C8_MonotoneStrictlyInsideUnitInterval ==
    ~Overridden =>
        LET ep == empirical_prob(self)
        IN  /\ \A i \in 1..Len(ep) : StrictlyInside(ep[i])
            /\ \A i \in 1..(Len(ep) - 1) : RLe(ep[i], ep[i + 1])

(***************************************************************************)
(* C9: in every state reachable by any interleaving of the three calls,    *)
(* the override is absent or holds exactly one probability per record of   *)
(* the current data, each in [0,1].                                        *)
(***************************************************************************)
C9_OverrideHasOneEntryPerRecord ==
    Overridden =>
        /\ Len(Val(self.empirical_prob)) = Len(self.data)
        /\ \A i \in 1..Len(Val(self.empirical_prob)) :
              InUnitInterval(Val(self.empirical_prob)[i])

(***************************************************************************)
(* C10: set_empirical_prob(values) raises ValueError if and only if        *)
(* len(values) # len(data) or some value is outside [0,1]; when it returns *)
(* the override is values and empirical_prob reads back values.  Tried     *)
(* with every array in every reachable state.                              *)
(***************************************************************************)
C10_SetProbabilitiesRaisesIff ==
    \A v \in SeqsUpTo(TryProbs, Len(self.data) + 1) :
        LET r == set_empirical_prob(self, v)
            bad == \/ Len(v) # Len(self.data)
                   \/ \E i \in 1..Len(v) : ~InUnitInterval(v[i])
        IN  /\ r.raised = "ValueError" <=> bad
            /\ r.raised = "None" <=> ~bad
            /\ r.raised = "None" =>
                  /\ r.obj.empirical_prob = Some(v)
                  /\ empirical_prob(r.obj) = v
                  /\ extreme_prob(r.obj) \o ordinary_prob(r.obj) = v

\* A full array of probabilities installed on a record set with a
\* historical batch attached.
C10_Witness ==
    /\ Returned("set_empirical_prob")
    /\ Overridden
    /\ historical # <<>>
    /\ Len(Val(self.empirical_prob)) = Len(self.data)
    /\ Len(self.data) >= 2

(***************************************************************************)
(* C11: set_empirical_prob_by_order(order, prob, start_value) raises       *)
(* IndexError if and only if order is outside                              *)
(* [start_value, start_value + len(data) - 1], and for an order in that    *)
(* range raises ValueError if and only if prob is outside [0,1].  Tried    *)
(* with every argument in every reachable state.                           *)
(***************************************************************************)
C11_ByOrderRaisesIff ==
    \A o \in TryOrders, p \in TryProbs, s \in TryStartValues :
        LET r == set_empirical_prob_by_order(self, o, p, s)
            inside == s <= o /\ o <= s + Len(self.data) - 1
        IN  /\ r.raised = "IndexError" <=> ~inside
            /\ inside => (r.raised = "ValueError" <=> ~InUnitInterval(p))
            /\ inside => (r.raised = "None" <=> InUnitInterval(p))

\* A call on the last of at least three records that returned.
C11_Witness ==
    /\ Returned("set_empirical_prob_by_order")
    /\ Overridden
    /\ Len(self.data) >= 3
    /\ Val(self.empirical_prob)[Len(self.data)] = RZero

(***************************************************************************)
(* C12: after every set_empirical_prob_by_order(order, prob, start_value)  *)
(* that returns, in any reachable state, the override is present, its      *)
(* entry at position order - start_value is prob, and every other entry is *)
(* the effective probability the position had before the call.             *)
(***************************************************************************)
C12_ByOrderReplacesOneEntry ==
    \A o \in Orders, p \in TryProbs, s \in StartValues :
        LET r == set_empirical_prob_by_order(self, o, p, s)
            before == empirical_prob(self)
            after == Val(r.obj.empirical_prob)
            k == o - s + 1
        IN  r.raised = "None" =>
              /\ ~IsNone(r.obj.empirical_prob)
              /\ Len(after) = Len(before)
              /\ k \in 1..Len(after)
              /\ after[k] = p
              /\ \A i \in 1..Len(after) : i # k => after[i] = before[i]

(***************************************************************************)
(* C13: whenever an override is present, extreme_prob is                   *)
(* override[0:len(extreme)], ordinary_prob is override[len(extreme):],     *)
(* their concatenation is the whole override, and period_length has no     *)
(* influence on extreme_prob, ordinary_prob or empirical_prob.             *)
(***************************************************************************)
C13_OverrideIsSliced ==
    Overridden =>
        LET ov == Val(self.empirical_prob)
            k == IF Len(self.extreme_data) < Len(ov)
                 THEN Len(self.extreme_data) ELSE Len(ov)
        IN  /\ extreme_prob(self) = [i \in 1..k |-> ov[i]]
            /\ ordinary_prob(self) = [i \in 1..(Len(ov) - k) |-> ov[k + i]]
            /\ extreme_prob(self) \o ordinary_prob(self) = ov
            /\ empirical_prob(self) = ov
            /\ \A p \in TryPeriods :
                  LET other == [self EXCEPT !.period_length = p]
                  IN  /\ p >= 0 => extreme_prob(other) = extreme_prob(self)
                      /\ p >= 0 => ordinary_prob(other) = ordinary_prob(self)
                      /\ p >= 0 => empirical_prob(other) = empirical_prob(self)

\* An override with a replaced entry, read through an empty extreme
\* partition and a survey period longer than the data.
C13_Witness ==
    /\ Overridden
    /\ Len(Val(self.empirical_prob)) >= 2
    /\ \E i \in 1..Len(Val(self.empirical_prob)) :
          Val(self.empirical_prob)[i] # Val(self.empirical_prob)[1]
    /\ self.extreme_data = <<>>
    /\ self.period_length > Len(self.data)

(***************************************************************************)
(* C14: once an override is installed, no later call makes it absent.      *)
(***************************************************************************)
C14_OverrideStays == [][Overridden => Overridden']_vars

\* set_history_data returned on a record set that has an override.
C14_Witness ==
    /\ Overridden
    /\ Returned("set_history_data")
    /\ historical # <<>>

(***************************************************************************)
(* C15: a record set is never built from an empty observed sequence: no    *)
(* state with len(observed) = 0 is reachable.                              *)
(***************************************************************************)
C15_ObservedNeverEmpty == self.observed_data # <<>>

(***************************************************************************)
(* C19: a call that raises leaves data, extreme_data, ordinary_data,       *)
(* period_length and the override exactly as they were.  Tried with every  *)
(* argument of the three calls in every reachable state.                   *)
(***************************************************************************)
C19_FailedCallChangesNothing ==
    /\ \A h \in Histories, p \in TryPeriods, e \in TryExtremeNums :
          LET r == set_history_data(self, h, p, e)
          IN  r.raised # "None" => r.obj = self
    /\ \A v \in SeqsUpTo(TryProbs, Len(self.data) + 1) :
          LET r == set_empirical_prob(self, v)
          IN  r.raised # "None" => r.obj = self
    /\ \A o \in TryOrders, p \in TryProbs, s \in TryStartValues :
          LET r == set_empirical_prob_by_order(self, o, p, s)
          IN  r.raised # "None" => r.obj = self

(***************************************************************************)
(* Integer sums for the closed forms of the moments: the sum of the        *)
(* records, and the sum of the k-th powers of b * x - a over the records   *)
(* x (the deviations from the mean a / b, scaled by b).                    *)
(***************************************************************************)
RECURSIVE Total(_)
Total(s) == IF s = <<>> THEN 0 ELSE Head(s) + Total(Tail(s))

RECURSIVE TotalDev(_, _, _, _)
TotalDev(s, a, b, k) ==
    IF s = <<>> THEN 0
    ELSE (b * Head(s) - a) ^ k + TotalDev(Tail(s), a, b, k)

\* The moments g against the weighted formulas over a common denominator:
\* mean = a / b with a = lo * sum(extreme) + (P - le) * sum(ordinary) and
\* b = lo * P.
WeightedForms(seq, g, P, le, lo, a, b) ==
    /\ g.mean = Some(Rat(a, b))
    /\ g.variation_mean = g.mean
    /\ g.radicand =
          Some(Rat(lo * TotalDev(seq.extreme_data, a, b, 2)
                     + (P - le) * TotalDev(seq.ordinary_data, a, b, 2),
                   lo * b * b * (P - 1)))
    /\ Val(g.radicand) # RZero =>
          g.moment3 =
             Some(Rat(P * (lo * TotalDev(seq.extreme_data, a, b, 3)
                            + (P - le) * TotalDev(seq.ordinary_data, a, b, 3)),
                      lo * b * b * b * (P - 1) * (P - 2)))

WeightedMeanNumerator(seq) ==
    Len(seq.ordinary_data) * Total(seq.extreme_data)
        + (seq.period_length - Len(seq.extreme_data)) * Total(seq.ordinary_data)

WeightedAsStated(seq, g) ==
    (Len(seq.extreme_data) > 0 /\ Len(seq.ordinary_data) > 0
        /\ seq.period_length > 2) =>
        /\ seq.period_length >= Len(seq.data) => g.raised = "None"
        /\ (g.raised = "None" /\ WeightedMeanNumerator(seq) # 0) =>
              WeightedForms(seq, g, seq.period_length, Len(seq.extreme_data),
                            Len(seq.ordinary_data), WeightedMeanNumerator(seq),
                            Len(seq.ordinary_data) * seq.period_length)

\* The moments g against the sample estimators of the n records, of sum S.
PlainForms(seq, g, n, S) ==
    /\ g.raised = "None"
    /\ g.mean = Some(Rat(S, n))
    /\ g.variation_mean = g.mean
    /\ g.radicand = Some(Rat(TotalDev(seq.data, S, n, 2), n * n * (n - 1)))
    /\ Val(g.radicand) # RZero =>
          g.moment3 = Some(Rat(n * TotalDev(seq.data, S, n, 3),
                               n * n * n * (n - 1) * (n - 2)))

PlainAsStated(seq, g) ==
    (Len(seq.extreme_data) = 0 /\ Len(seq.data) > 2) =>
        PlainForms(seq, g, Len(seq.data), Total(seq.data))

(***************************************************************************)
(* C16: with extreme data, get_moments uses the period-weighted formulas:  *)
(* with r = (period_length - len(extreme)) / len(ordinary),                *)
(* mean = (sum(extreme) + r * sum(ordinary)) / period_length; the squared  *)
(* deviations weighted the same way over period_length - 1 under the       *)
(* square root of cv; the cubed deviations weighted the same way, times    *)
(* period_length, over (period_length - 1)(period_length - 2) mean^3 cv^3  *)
(* for cs.  With no extreme data it uses the sample mean, the sample       *)
(* standard deviation over the mean and the corrected sample skewness of   *)
(* all the records, and period_length has no influence.                    *)
(***************************************************************************)
C16_MomentsAreWeightedByPeriod ==
    /\ Returned("get_moments") => last_moments = Some(get_moments(self))
    /\ WeightedAsStated(self, get_moments(self))
    /\ PlainAsStated(self, get_moments(self))
    /\ self.extreme_data = <<>> =>
          \A p \in TryPeriods :
              get_moments([self EXCEPT !.period_length = p]) = get_moments(self)

\* The initial moments of a fit: the caller's, or else the estimate g.
InitialMoments(given, g) ==
    IF IsNone(given) THEN <<g.mean, g.radicand, g.moment3>> ELSE Val(given)

\* The initial moments m restricted to the free parameters.
FreeOf(m, sv_ratio, fit_ex) ==
    (IF fit_ex THEN <<m[1]>> ELSE <<>>) \o <<m[2]>>
        \o (IF IsNone(sv_ratio) THEN <<m[3]>> ELSE <<>>)

\* The returned triple ret of a fit f from the initial moments m.
ReturnKeepsFixed(f, m, ret) ==
    /\ ~f.fit_ex => ret[1] = m[1]
    /\ ~IsNone(f.sv_ratio) => ret[3] = FMul(ret[2], f.sv_ratio)
    /\ ret = (IF f.fit_ex THEN <<>> ELSE <<m[1]>>)
                \o f.curve_fit.popt
                \o (IF IsNone(f.sv_ratio) THEN <<>>
                    ELSE <<FMul(ret[2], f.sv_ratio)>>)

FitKeepsFixed(f, m) ==
    /\ f.result.m = Some(m)
    /\ f.result.p0 = FreeOf(m, f.sv_ratio, f.fit_ex)
    /\ f.result.raised = f.curve_fit.raised
    /\ f.result.raised = "None" => ReturnKeepsFixed(f, m, Val(f.result.ret))

(***************************************************************************)
(* C17: in each of the four configurations of get_fitted_moments, whatever *)
(* the solver returns: with fit_ex false the returned ex is the initial    *)
(* mean (get_moments's or the caller's); with sv_ratio given the returned  *)
(* cs is the returned cv times sv_ratio; p0 is the initial moments         *)
(* restricted to the free parameters.                                      *)
(***************************************************************************)
C17_FixedParametersAreNotFitted ==
    (call.op = "get_fitted_moments" /\ ~IsNone(Val(last_fit).result.m)) =>
        FitKeepsFixed(Val(last_fit),
                      InitialMoments(Val(last_fit).moments, get_moments(self)))

\* A fit with the mean fixed and the skewness tied to the variation, from
\* the moments get_moments estimates on a sequence with extreme data, whose
\* solver returned.
C17_Witness ==
    /\ Returned("get_fitted_moments")
    /\ ~Val(last_fit).fit_ex
    /\ ~IsNone(Val(last_fit).sv_ratio)
    /\ IsNone(Val(last_fit).moments)
    /\ self.extreme_data # <<>>
    /\ ~IsNone(Val(last_fit).result.p0[1])
    /\ Val(last_fit).result.p0[1] # Val(last_fit).curve_fit.popt[1]

(***************************************************************************)
(* C20: in every state reached by calls of set_history_data in which the   *)
(* extreme partition is not empty, the ordinary partition is not empty, so *)
(* the weight r of get_moments does not divide by zero.                    *)
(***************************************************************************)
C20_OrdinaryNeverEmptyWithExtreme ==
    self.extreme_data # <<>> =>
        /\ self.ordinary_data # <<>>
        /\ get_moments(self).raised # "ZeroDivisionError"

(***************************************************************************)
(* C21: the two branches of get_moments agree on the mean when the         *)
(* historical extension adds no period: with extreme and ordinary data     *)
(* both non-empty and period_length = len(data) (so r = 1), the weighted   *)
(* mean is the arithmetic mean of data, which is what the branch without   *)
(* extreme data computes on the same records.                              *)
(***************************************************************************)
C21_BranchesAgreeOnMean ==
    (self.extreme_data # <<>> /\ self.ordinary_data # <<>>
        /\ self.period_length = Len(self.data)) =>
        /\ get_moments(self).raised = "None"
        /\ get_moments(self).mean = Some(Rat(Total(self.data), Len(self.data)))
        /\ get_moments(self).mean = plain_moments(self.data, self.dtype).mean
        /\ get_moments(self).mean =
              get_moments([self EXCEPT !.extreme_data = <<>>,
                                       !.ordinary_data = self.data]).mean

====
